---- MODULE Spec2Model ----
(***************************************************************************)
(* A model of the notebook helpers of swot-precip-validation:              *)
(*   notebooks/download.py   fetch_hydrocron, download_mrms                *)
(*                                                                         *)
(* Spec      one call of download_mrms(ts_df, var_name, precip_path,       *)
(*           hourly), one step per statement group of its loop.            *)
(* SpecFetch one call of fetch_hydrocron.                                  *)
(* SpecUnit  the two arithmetic expressions of download_mrms, the minute   *)
(*           bucket and the longitude normalisation, on drawn inputs.      *)
(*                                                                         *)
(* Timestamps are instants, counted in seconds from 00:00:00 UTC of the    *)
(* first day of the table; tz_convert('UTC') changes the representation    *)
(* of an instant, never the instant, so the UTC fields are read off the    *)
(* count.  The calendar date (year, month, day) is the day number.         *)
(*                                                                         *)
(* Latitudes and longitudes are binary floating-point numbers.  They are   *)
(* counted in quanta of 2^-FracBits degree and carry MantissaBits          *)
(* significant bits (53 in the float64 of the code), with rounding to      *)
(* nearest, ties to even, wherever an arithmetic result is inexact.        *)
(***************************************************************************)
EXTENDS Integers, Sequences, FiniteSets

(* ------------------------------ bounds -------------------------------- *)

\* The longest input table.
MaxRows == 2

\* Fraction bits of a coordinate: one quantum is 2^-FracBits degree.
FracBits == 5

\* Significant bits of a floating-point coordinate.
MantissaBits == 11

(* ------------------------- program constants -------------------------- *)

\* The modulus of the longitude normalisation.
Lon360 == 360

\* The only status download_mrms and fetch_hydrocron take as a success.
StatusOk == 200

\* The cadence of the MRMS grids in minutes.
Cadence == 2

(* ------------------------------ inputs -------------------------------- *)

Quantum == 2 ^ FracBits

Deg(d) == d * Quantum

Time(day, hour, minute, second) ==
    ((day * 24 + hour) * 60 + minute) * 60 + second

\* The timestamps of the input tables: two in one 2-minute bucket, a third
\* in the same hour, one on the next day.
Times ==
    { Time(0, 13, 4, 0), Time(0, 13, 5, 30), Time(0, 13, 47, 0),
      Time(1, 0, 0, 0) }

\* (lat, lon) of the nodes: a western longitude, one already in [0, 360),
\* and one a single quantum west of the prime meridian.
Points ==
    { <<Deg(40), Deg(-10)>>, <<Deg(35), Deg(350)>>, <<Deg(35), -1>> }

NodeIds == {1, 2}

Rows ==
    { [node_id |-> n, lat |-> p[1], lon |-> p[2], time |-> t] :
        n \in NodeIds, p \in Points, t \in Times }

RECURSIVE Tables(_)
Tables(n) ==
    IF n = 0 THEN { <<>> }
    ELSE LET shorter == Tables(n - 1)
         IN  shorter \cup
             { Append(df, r) : df \in { d \in shorter : Len(d) = n - 1 },
                               r \in Rows }

\* What the MRMS bucket answers to a GET.
Statuses == {200, 404}

\* What the body of a 200 answer turns out to be: not gzip, gzip of bytes
\* cfgrib cannot decode, a GRIB file with no data variable, a grid.
Bodies == {"not_gzip", "not_grib", "no_variable", "grid"}

(* ------------------------ floating-point helpers ---------------------- *)

Abs(n) == IF n < 0 THEN -n ELSE n

RECURSIVE BitLen(_)
BitLen(m) == IF m = 0 THEN 0 ELSE 1 + BitLen(m \div 2)

\* n rounded to MantissaBits significant bits, to nearest, ties to even.
RoundFloat(n) ==
    LET a == Abs(n)
        e == BitLen(a) - MantissaBits
    IN  IF e <= 0 THEN n
        ELSE LET u  == 2 ^ e
                 q  == a \div u
                 r  == a % u
                 up == (2 * r > u) \/ (2 * r = u /\ q % 2 = 1)
                 m  == IF up THEN (q + 1) * u ELSE q * u
             IN  IF n < 0 THEN -m ELSE m

\* C fmod for a positive modulus: exact, with the sign of the dividend.
Fmod(a, b) == IF a < 0 THEN -(Abs(a) % b) ELSE a % b

\* lon % 360 on floats: fmod, then the modulus added when the signs differ.
PyMod(a, b) ==
    LET mod == Fmod(a, b)
    IN  IF mod # 0 /\ mod < 0 THEN RoundFloat(mod + b) ELSE mod

NormLon(lon) == PyMod(lon, Deg(Lon360))

(* --------------------------- download_mrms ---------------------------- *)

Day(t)    == t \div 86400
Hour(t)   == (t \div 3600) % 24
Minute(t) == (t \div 60) % 60

\* A slip: the minute rounded to the nearest even minute, not down.
MrmsMinuteNearest(minute, hrly) ==
    IF hrly THEN 0 ELSE ((minute + 1) \div Cadence) * Cadence

MrmsMinute(minute, hrly) ==
    IF hrly THEN 0 ELSE (minute \div Cadence) * Cadence

\* The fields of the URL that depend on the timestamp.
MrmsUrl(t, hrly) ==
    [day |-> Day(t), hour |-> Hour(t), minute |-> MrmsMinute(Minute(t), hrly)]

\* The result of ds[var].interp(latitude, longitude, method='nearest').
Interp(grid, latitude, longitude) ==
    [grid |-> grid, latitude |-> latitude, longitude |-> longitude]

RECURSIVE SortSet(_)
SortSet(S) ==
    IF S = {} THEN <<>>
    ELSE LET m == CHOOSE x \in S : \A y \in S : x <= y
         IN  <<m>> \o SortSet(S \ {m})

\* groupby('time'): the distinct timestamps, ascending.
GroupKeys(df) == SortSet({ df[i].time : i \in 1..Len(df) })

\* The rows of one group, in the order of the table.
GroupRows(df, t) ==
    LET Same(r) == r.time = t IN SelectSeq(df, Same)

VARIABLES
    ts_df,      \* the input table
    hourly,     \* the hourly flag
    pc,         \* where download_mrms is
    gi,         \* the index of the group the loop is at
    ri,         \* the index of the row the inner loop is at
    content,    \* the body of the response at hand, or "none"
    ds,         \* the open dataset, if any, and its data variables
    new_rows,   \* the accumulated output rows
    requests,   \* the URL keys requested so far
    decodes,    \* the URL keys handed to the grid reader so far
    tmpfiles,   \* the transient files that exist
    tmpmade,    \* the transient files created so far
    csv,        \* the output file, if any, and its rows
    writes,     \* how often the output file was written
    exc,        \* the exception download_mrms left with, or "none"
    outcomes    \* per group the loop is through with: "skipped", "sampled"

mrms_vars ==
    <<ts_df, hourly, pc, gi, ri, content, ds, new_rows, requests, decodes,
      tmpfiles, tmpmade, csv, writes, exc, outcomes>>

VARIABLES
    f_node,     \* fetch_hydrocron: info['node_id']
    f_pc,       \* where fetch_hydrocron is
    f_status,   \* the status of the response, 0 before there is one
    f_body,     \* what the body of the response is, "none" before
    f_exc,      \* the exception in flight or propagated, "none" otherwise
    f_result    \* what fetch_hydrocron returned, "unset" before

fetch_vars == <<f_node, f_pc, f_status, f_body, f_exc, f_result>>

VARIABLES
    u_pc,       \* where the arithmetic is
    u_minute,   \* dt_utm0.minute
    u_hourly,   \* the hourly flag
    u_lat,      \* row['lat']
    u_lon,      \* row['lon']
    u_bucket,   \* mrms_minute, -1 before it is computed
    u_sample    \* the (latitude, longitude) handed to interp, <<>> before

unit_vars == <<u_pc, u_minute, u_hourly, u_lat, u_lon, u_bucket, u_sample>>

other_mrms == <<fetch_vars, unit_vars>>

NoDataset == [open |-> FALSE, data_vars |-> <<>>]

NoFile == [exists |-> FALSE, rows |-> <<>>]

MrmsInit ==
    /\ ts_df \in Tables(MaxRows)
    /\ hourly \in BOOLEAN
    /\ pc = "loop"
    /\ gi = 1
    /\ ri = 0
    /\ content = "none"
    /\ ds = NoDataset
    /\ new_rows = <<>>
    /\ requests = <<>>
    /\ decodes = <<>>
    /\ tmpfiles = 0
    /\ tmpmade = 0
    /\ csv = NoFile
    /\ writes = 0
    /\ exc = "none"
    /\ outcomes = <<>>

Groups == GroupKeys(ts_df)

Dt == Groups[gi]

SwotDf == GroupRows(ts_df, Dt)

\* A slip: the exception is caught and the loop goes on.
RaiseSwallowed(e) ==
    /\ pc' = "loop"
    /\ exc' = e

\* download_mrms guards nothing: an exception leaves the call.
Raise(e) ==
    /\ pc' = "raised"
    /\ exc' = e

\* A slip: the failed group is requested again.
SkipGroupRetry(g) == g

\* continue: the loop goes on with the next group.
SkipGroup(g) == g + 1

\* A slip: NamedTemporaryFile(delete=False), the file stays.
ReleaseKeeps(n) == n

\* The with block of the NamedTemporaryFile is left: the file is deleted.
Release(n) == n - 1

\* requests.get(mrms_url) and the status check.
Request ==
    /\ pc = "loop"
    /\ gi <= Len(Groups)
    /\ requests' = Append(requests, MrmsUrl(Dt, hourly))
    /\ \E status \in Statuses :
         IF status # StatusOk
         THEN /\ gi' = SkipGroup(gi)
              /\ pc' = "loop"
              /\ content' = "none"
              /\ outcomes' = Append(outcomes, "skipped")
         ELSE /\ gi' = gi
              /\ pc' = "unzip"
              /\ content' \in Bodies
              /\ outcomes' = outcomes
    /\ UNCHANGED other_mrms
    /\ UNCHANGED <<ts_df, hourly, ri, ds, new_rows, decodes, tmpfiles,
                   tmpmade, csv, writes, exc>>

\* gzip.open(...).read(), then the NamedTemporaryFile written and flushed.
Unzip ==
    /\ pc = "unzip"
    /\ IF content = "not_gzip"
       THEN /\ Raise("BadGzipFile")
            /\ UNCHANGED <<tmpfiles, tmpmade>>
       ELSE /\ pc' = "open"
            /\ tmpfiles' = tmpfiles + 1
            /\ tmpmade' = tmpmade + 1
            /\ exc' = exc
    /\ UNCHANGED other_mrms
    /\ UNCHANGED <<ts_df, hourly, gi, ri, content, ds, new_rows, requests,
                   decodes, csv, writes, outcomes>>

\* xr.open_dataset(tmp.name, engine='cfgrib').
OpenDataset ==
    /\ pc = "open"
    /\ decodes' = Append(decodes, MrmsUrl(Dt, hourly))
    /\ IF content = "not_grib"
       THEN /\ Raise("DecodeError")
            /\ tmpfiles' = Release(tmpfiles)
            /\ UNCHANGED <<ds, ri>>
       ELSE /\ pc' = "sample"
            /\ ri' = 1
            /\ ds' = [open |-> TRUE,
                      data_vars |-> IF content = "grid"
                                    THEN <<MrmsUrl(Dt, hourly)>>
                                    ELSE <<>>]
            /\ UNCHANGED <<tmpfiles, exc>>
    /\ UNCHANGED other_mrms
    /\ UNCHANGED <<ts_df, hourly, gi, content, new_rows, requests, tmpmade,
                   csv, writes, outcomes>>

\* A slip: every row of the group sampled at the first row's location.
NewRowFirstLocation(row, dt, grid) ==
    [node_id |-> row.node_id,
     time    |-> dt,
     value   |-> Interp(grid, SwotDf[1].lat, NormLon(SwotDf[1].lon))]

\* A slip: the row stamped with the time of the grid, not of the group.
NewRowGridTime(row, dt, grid) ==
    [node_id |-> row.node_id,
     time    |-> Time(grid.day, grid.hour, grid.minute, 0),
     value   |-> Interp(grid, row.lat, NormLon(row.lon))]

\* The row appended for one row of the group.
NewRow(row, dt, grid) ==
    [node_id |-> row.node_id,
     time    |-> dt,
     value   |-> Interp(grid, row.lat, NormLon(row.lon))]

\* One turn of the loop over swot_df.iterrows().
SampleRow ==
    /\ pc = "sample"
    /\ ri <= Len(SwotDf)
    /\ IF ds.data_vars = <<>>
       THEN /\ Raise("IndexError")
            /\ tmpfiles' = Release(tmpfiles)
            /\ UNCHANGED <<ri, new_rows>>
       ELSE /\ new_rows' =
                  Append(new_rows, NewRow(SwotDf[ri], Dt, ds.data_vars[1]))
            /\ ri' = ri + 1
            /\ UNCHANGED <<pc, exc, tmpfiles>>
    /\ UNCHANGED other_mrms
    /\ UNCHANGED <<ts_df, hourly, gi, content, ds, requests, decodes,
                   tmpmade, csv, writes, outcomes>>

\* The end of the with block: the transient file is released.
EndGroup ==
    /\ pc = "sample"
    /\ ri > Len(SwotDf)
    /\ tmpfiles' = Release(tmpfiles)
    /\ gi' = gi + 1
    /\ pc' = "loop"
    /\ outcomes' = Append(outcomes, "sampled")
    /\ UNCHANGED other_mrms
    /\ UNCHANGED <<ts_df, hourly, ri, content, ds, new_rows, requests,
                   decodes, tmpmade, csv, writes, exc>>

\* pd.concat(new_rows) and to_csv.
WriteCsv ==
    /\ pc = "loop"
    /\ gi > Len(Groups)
    /\ IF new_rows = <<>>
       THEN /\ Raise("ValueError")
            /\ UNCHANGED <<csv, writes>>
       ELSE /\ csv' = [exists |-> TRUE, rows |-> new_rows]
            /\ writes' = writes + 1
            /\ pc' = "done"
            /\ exc' = exc
    /\ UNCHANGED other_mrms
    /\ UNCHANGED <<ts_df, hourly, gi, ri, content, ds, new_rows, requests,
                   decodes, tmpfiles, tmpmade, outcomes>>

vars == <<mrms_vars, fetch_vars, unit_vars>>

MrmsIdle ==
    /\ ts_df = <<>>
    /\ hourly = FALSE
    /\ pc = "idle"
    /\ gi = 1
    /\ ri = 0
    /\ content = "none"
    /\ ds = NoDataset
    /\ new_rows = <<>>
    /\ requests = <<>>
    /\ decodes = <<>>
    /\ tmpfiles = 0
    /\ tmpmade = 0
    /\ csv = NoFile
    /\ writes = 0
    /\ exc = "none"
    /\ outcomes = <<>>

FetchIdle ==
    /\ f_node = 0
    /\ f_pc = "idle"
    /\ f_status = 0
    /\ f_body = "none"
    /\ f_exc = "none"
    /\ f_result = "unset"

UnitIdle ==
    /\ u_pc = "idle"
    /\ u_minute = 0
    /\ u_hourly = FALSE
    /\ u_lat = 0
    /\ u_lon = 0
    /\ u_bucket = -1
    /\ u_sample = <<>>

Init == MrmsInit /\ FetchIdle /\ UnitIdle

Next ==
    \/ Request
    \/ Unzip
    \/ OpenDataset
    \/ SampleRow
    \/ EndGroup
    \/ WriteCsv

Spec == Init /\ [][Next]_vars

(* -------------------------- fetch_hydrocron --------------------------- *)

\* The statuses the hydrocron endpoint answers with.
FetchStatuses == {200, 201, 204, 301, 400, 404, 429, 500, 503}

\* What the body of an answer is: no JSON at all, JSON that is no object,
\* an object with an error field, an object with neither error nor results,
\* an object whose results.csv pandas cannot read, one it can.
FetchBodies ==
    {"not_json", "json_list", "json_error", "json_empty", "csv_bad", "csv_ok"}

\* What requests.get can leave with instead of returning a response.
GetExceptions == {"ConnectionError", "Timeout", "KeyboardInterrupt"}

\* A slip: only the exceptions of requests are caught.
FetchCaughtRequestsOnly(e) == e \in {"ConnectionError", "Timeout"}

\* The exceptions `except Exception` catches: all but the BaseExceptions.
FetchCaught(e) == e # "KeyboardInterrupt"

\* response.json().
JsonError(body) == IF body = "not_json" THEN "JSONDecodeError" ELSE "none"

\* Lines 41-44: the non-200 branch, as <<exception, result>>.
FetchFailure(body) ==
    IF JsonError(body) # "none" THEN <<JsonError(body), "unset">>
    ELSE IF body = "json_list" THEN <<"AttributeError", "unset">>
    ELSE <<"none", "None">>

\* Lines 46-52: the 200 branch, as <<exception, result>>.
FetchSuccess(body) ==
    IF JsonError(body) # "none" THEN <<JsonError(body), "unset">>
    ELSE IF body = "json_list" THEN <<"TypeError", "unset">>
    ELSE IF body \in {"json_error", "json_empty"} THEN <<"KeyError", "unset">>
    ELSE IF body = "csv_bad" THEN <<"ParserError", "unset">>
    ELSE <<"none", "table">>

FetchInit ==
    /\ f_node \in NodeIds
    /\ f_pc = "call"
    /\ f_status = 0
    /\ f_body = "none"
    /\ f_exc = "none"
    /\ f_result = "unset"

\* requests.get(url, timeout=10).
FetchGet ==
    /\ f_pc = "call"
    /\ \/ /\ f_status' \in FetchStatuses
          /\ f_body' \in FetchBodies
          /\ f_pc' = "response"
          /\ f_exc' = f_exc
       \/ /\ f_exc' \in GetExceptions
          /\ f_pc' = "except"
          /\ UNCHANGED <<f_status, f_body>>
    /\ UNCHANGED <<f_node, f_result>>
    /\ UNCHANGED <<mrms_vars, unit_vars>>

\* The status check and the parse of the body, inside the try.
FetchParse ==
    /\ f_pc = "response"
    /\ LET out == IF f_status # StatusOk
                  THEN FetchFailure(f_body)
                  ELSE FetchSuccess(f_body)
       IN  /\ f_exc' = out[1]
           /\ f_result' = out[2]
           /\ f_pc' = IF out[1] = "none" THEN "returned" ELSE "except"
    /\ UNCHANGED <<f_node, f_status, f_body>>
    /\ UNCHANGED <<mrms_vars, unit_vars>>

\* except Exception as e: print, return None.
FetchExcept ==
    /\ f_pc = "except"
    /\ IF FetchCaught(f_exc)
       THEN /\ f_result' = "None"
            /\ f_pc' = "returned"
       ELSE /\ f_result' = f_result
            /\ f_pc' = "raised"
    /\ UNCHANGED <<f_node, f_status, f_body, f_exc>>
    /\ UNCHANGED <<mrms_vars, unit_vars>>

FetchNext ==
    \/ FetchGet
    \/ FetchParse
    \/ FetchExcept

InitFetch == MrmsIdle /\ FetchInit /\ UnitIdle

SpecFetch == InitFetch /\ [][FetchNext]_vars

(* ------------------- the arithmetic of download_mrms ------------------ *)

\* Every minute of the hour.
UnitMinutes == 0..59

\* Longitudes: whole degrees on both sides of [0, 360), and the values
\* within a few quanta of the prime meridian.
UnitLons ==
    { Deg(d) : d \in {-370, -360, -180, -10, 0, 10, 180, 350, 360, 370, 720} }
        \cup { q - 4 : q \in 0..8 }

UnitLats == { Deg(-35), Deg(40) }

UnitInit ==
    /\ u_pc = "bucket"
    /\ u_minute \in UnitMinutes
    /\ u_hourly \in BOOLEAN
    /\ u_lat \in UnitLats
    /\ u_lon \in UnitLons
    /\ u_bucket = -1
    /\ u_sample = <<>>

\* Lines 82-86.
UnitBucket ==
    /\ u_pc = "bucket"
    /\ u_bucket' = MrmsMinute(u_minute, u_hourly)
    /\ u_pc' = "sample"
    /\ UNCHANGED <<u_minute, u_hourly, u_lat, u_lon, u_sample>>
    /\ UNCHANGED <<mrms_vars, fetch_vars>>

\* Lines 119-123: the coordinates handed to interp.
UnitSample ==
    /\ u_pc = "sample"
    /\ u_sample' = <<u_lat, NormLon(u_lon)>>
    /\ u_pc' = "done"
    /\ UNCHANGED <<u_minute, u_hourly, u_lat, u_lon, u_bucket>>
    /\ UNCHANGED <<mrms_vars, fetch_vars>>

UnitNext ==
    \/ UnitBucket
    \/ UnitSample

InitUnit == MrmsIdle /\ FetchIdle /\ UnitInit

SpecUnit == InitUnit /\ [][UnitNext]_vars

(* ============================== claims =============================== *)

IsEven(n) == n % 2 = 0

\* C4: for every minute m in 0..59 the minute of the URL is 0 when hourly
\* and otherwise the largest even number <= m: it is even, in 0..58, and
\* bucket <= m <= bucket + 1.
C4_MinuteBucket ==
    u_pc # "bucket" =>
        IF u_hourly
        THEN u_bucket = 0
        ELSE /\ IsEven(u_bucket)
             /\ u_bucket \in 0..58
             /\ u_bucket <= u_minute
             /\ u_minute <= u_bucket + 1
             /\ \A e \in 0..59 : IsEven(e) /\ e <= u_minute => e <= u_bucket

\* Minute 47 of a sub-hourly call has been bucketed (to 46).
C4_Witness ==
    u_pc # "bucket" /\ ~u_hourly /\ u_minute = 47 /\ u_bucket = 46

\* C5: fetch_hydrocron returns None and raises nothing for every response
\* whose status is not 200, whatever its body, and for every network or
\* parsing exception; it returns a table only on a 200 response whose CSV
\* parses.
C5_FetchNeverRaises ==
    /\ f_pc = "raised" => f_status = 0 /\ f_exc = "KeyboardInterrupt"
    /\ f_pc = "returned" =>
          /\ f_result \in {"None", "table"}
          /\ f_status # StatusOk => f_result = "None"
          /\ f_exc # "none" => f_result = "None"
          /\ f_result = "table" <=> f_status = StatusOk /\ f_body = "csv_ok"
    /\ f_pc = "except" => f_result = "unset"

\* A 404 whose body is no JSON has been answered with None.
C5_Witness ==
    /\ f_pc = "returned"
    /\ f_status = 404
    /\ f_body = "not_json"
    /\ f_exc = "JSONDecodeError"
    /\ f_result = "None"

(* ---- download_mrms: what the rows, the requests and the file must be --- *)

RECURSIVE Count(_, _)
Count(seq, x) ==
    IF seq = <<>> THEN 0
    ELSE (IF seq[1] = x THEN 1 ELSE 0) + Count(Tail(seq), x)

\* The input rows of the first k groups that were sampled, group by group.
RECURSIVE SampledRows(_)
SampledRows(k) ==
    IF k = 0 THEN <<>>
    ELSE SampledRows(k - 1) \o
         (IF outcomes[k] = "sampled" THEN GroupRows(ts_df, Groups[k])
          ELSE <<>>)

\* The input rows sampled so far, those of the group at hand included.
Sources ==
    SampledRows(Len(outcomes)) \o
    (IF pc = "sample" THEN SubSeq(SwotDf, 1, ri - 1) ELSE <<>>)

\* The start of the grid interval an instant falls in, in seconds.
FloorTime(t, hrly) ==
    IF hrly THEN t - (t % 3600) ELSE t - (t % (Cadence * 60))

GridTime(grid) == Time(grid.day, grid.hour, grid.minute, 0)

\* A group is between its request and its end.
InFlight ==
    \/ pc \in {"unzip", "open", "sample"}
    \/ pc = "raised" /\ exc # "ValueError"

LoopOver == gi > Len(Groups)

\* C1: a group whose download and decode succeed adds exactly one output
\* row per input row of the group, in the order of the table, each with the
\* row's node id, the group's own timestamp and the value sampled at the
\* row's own latitude and normalised longitude on the grid of its bucket.
C1_OneRowPerInputRow ==
    LET src == Sources
    IN  /\ Len(new_rows) = Len(src)
        /\ \A i \in 1..Len(new_rows) :
              /\ new_rows[i].node_id = src[i].node_id
              /\ new_rows[i].time = src[i].time
              /\ new_rows[i].value =
                    Interp(MrmsUrl(src[i].time, hourly),
                           src[i].lat, NormLon(src[i].lon))

\* Two rows of one timestamp at two locations have become two output rows.
C1_Witness ==
    /\ pc = "done"
    /\ Len(ts_df) = 2
    /\ ts_df[1].time = ts_df[2].time
    /\ ts_df[1].lat # ts_df[2].lat
    /\ ts_df[1].lon # ts_df[2].lon
    /\ Len(new_rows) = 2
    /\ new_rows[1].time = Time(0, 13, 5, 30)
    /\ new_rows[2].time = Time(0, 13, 5, 30)
    /\ new_rows[1].value # new_rows[2].value

\* C2: a non-200 answer for a group adds no row for it and is skipped; the
\* call raises nothing, also when every group of a table fails.
C2_FailedDownloadNeverRaises ==
    /\ Len(new_rows) = Len(Sources)
    /\ ( /\ ts_df # <<>>
         /\ Len(outcomes) = Len(Groups)
         /\ \A i \in 1..Len(outcomes) : outcomes[i] = "skipped" )
       => pc # "raised"

\* C3: every output row's timestamp is the floor of its source row's
\* timestamp to the resolution of the grid.
C3_TimestampIsFloored ==
    LET src == Sources
    IN  \A i \in 1..Len(new_rows) :
            i <= Len(src) =>
                new_rows[i].time = FloorTime(src[i].time, hourly)

\* C3, amended: every output row keeps its source row's timestamp as it
\* is; the floor of that timestamp to the resolution of the grid is the
\* time of the grid the row's value was sampled from.
C3_GridIsFloored ==
    LET src == Sources
    IN  \A i \in 1..Len(new_rows) :
            i <= Len(src) =>
                /\ new_rows[i].time = src[i].time
                /\ GridTime(new_rows[i].value.grid) =
                      FloorTime(src[i].time, hourly)

\* An output row whose timestamp is not the start of a grid interval.
C3_Witness ==
    /\ ~hourly
    /\ Len(new_rows) >= 1
    /\ new_rows[1].time = Time(0, 13, 5, 30)
    /\ GridTime(new_rows[1].value.grid) = Time(0, 13, 4, 0)

InputTimes == { ts_df[i].time : i \in 1..Len(ts_df) }

InputBuckets == { MrmsUrl(t, hourly) : t \in InputTimes }

\* C7: one network call and, when the download succeeds, one decode per
\* distinct timestamp bucket of the table, one bucket after the other, and
\* no request ever made again.
C7_OneRequestPerBucket ==
    /\ \A i, j \in 1..Len(requests) : i # j => requests[i] # requests[j]
    /\ \A i, j \in 1..Len(decodes) : i # j => decodes[i] # decodes[j]
    /\ LoopOver => Len(requests) = Cardinality(InputBuckets)
    /\ Len(requests) = Len(outcomes) + (IF InFlight THEN 1 ELSE 0)

\* C7, amended: one network call per distinct timestamp of the table, in
\* ascending order of the timestamps, so that a bucket which several
\* distinct timestamps share is requested once for each of them; at most
\* one decode per call, made only for a download that succeeded; a group is
\* requested only when the one before it is skipped or fully sampled, and
\* no request is made again.
C7_OneRequestPerTimestamp ==
    /\ Len(requests) = Len(outcomes) + (IF InFlight THEN 1 ELSE 0)
    /\ LET keys == Groups
       IN  /\ Len(requests) <= Len(keys)
           /\ \A i \in 1..Len(requests) :
                 i <= Len(keys) => requests[i] = MrmsUrl(keys[i], hourly)
    /\ LoopOver => Len(requests) = Cardinality(InputTimes)
    /\ Len(decodes) =
          Count(outcomes, "sampled") +
          (IF pc = "sample" \/
              (pc = "raised" /\ exc \in {"DecodeError", "IndexError"})
           THEN 1 ELSE 0)
    /\ Len(decodes) + Count(outcomes, "skipped") <= Len(requests)
    /\ pc \in {"loop", "unzip", "open"} =>
          Len(new_rows) = Len(SampledRows(Len(outcomes)))

\* Two timestamps of one bucket have been requested one after the other,
\* by the same URL, and both decoded.
C7_Witness ==
    /\ pc = "done"
    /\ Cardinality(InputTimes) = 2
    /\ Cardinality(InputBuckets) = 1
    /\ Len(requests) = 2
    /\ requests[1] = requests[2]
    /\ Len(decodes) = 2

\* C8: a decode failure of the grid reader leaves download_mrms as an
\* exception and ends the call: no later group is requested, nothing more
\* happens, and no output file is written, whatever rows were sampled.
C8_DecodeFailureAborts ==
    exc = "DecodeError" =>
        /\ pc = "raised"
        /\ ~ENABLED Next
        /\ ~csv.exists
        /\ writes = 0
        /\ Len(requests) = gi
        /\ Len(outcomes) = gi - 1

\* The second group failed to decode after the first was sampled: its rows
\* are in memory and no file holds them.
C8_Witness ==
    /\ pc = "raised"
    /\ exc = "DecodeError"
    /\ gi = 2
    /\ outcomes = <<"sampled">>
    /\ Len(new_rows) = 1
    /\ ~csv.exists

\* C9: the output file is written exactly once, only after every group is
\* through, and then holds the rows of all sampled groups, in the order of
\* the groups and of the table within a group; no write while a group is
\* pending.
C9_FileWrittenOnceAtEnd ==
    /\ writes <= 1
    /\ csv.exists <=> writes = 1
    /\ csv.exists =>
          LET src == SampledRows(Len(Groups))
          IN  /\ LoopOver
              /\ Len(outcomes) = Len(Groups)
              /\ csv.rows = new_rows
              /\ Len(csv.rows) = Len(src)
              /\ \A i \in 1..Len(csv.rows) :
                    /\ csv.rows[i].node_id = src[i].node_id
                    /\ csv.rows[i].time = src[i].time
    /\ (ts_df # <<>> /\ LoopOver /\ pc # "loop") => writes = 1

\* C10: at most one transient file exists at any time; none is created for
\* a group whose download failed; it is released before the next request
\* and none is left when download_mrms returns or leaves by an exception.
C10_TransientFileScoped ==
    /\ tmpfiles \in {0, 1}
    /\ tmpfiles = 1 <=> pc \in {"open", "sample"}
    /\ pc \in {"loop", "unzip", "done", "raised"} => tmpfiles = 0
    /\ tmpmade + Count(outcomes, "skipped") <= Len(requests)
    /\ tmpmade <= Len(decodes) + (IF pc = "open" THEN 1 ELSE 0)

\* A second transient file was made and released by an exception of the
\* sampling, after the first was released at the end of its group.
C10_Witness ==
    /\ pc = "raised"
    /\ exc = "IndexError"
    /\ tmpmade = 2
    /\ tmpfiles = 0

\* C6: every longitude is sampled at lon % 360, a value in [0, 360)
\* congruent to the input modulo 360 (unchanged when already in [0, 360)),
\* and the latitude is passed through unchanged.
C6_LongitudeInRange ==
    u_pc = "done" =>
        /\ u_sample[1] = u_lat
        /\ u_sample[2] >= 0
        /\ u_sample[2] < Deg(Lon360)
        /\ (u_sample[2] - u_lon) % Deg(Lon360) = 0
        /\ (u_lon >= 0 /\ u_lon < Deg(Lon360)) => u_sample[2] = u_lon

====
